---- MODULE Spec2Model ----
(***************************************************************************)
(* Port-mapping generation of pkg/specgen/generate (src/unnamed/part_001): *)
(* parsePortMapping, createPortMappings, checkProtocol and getRandomPort.  *)
(*                                                                         *)
(* Every invocation owns one frame: its arguments, its locals and the      *)
(* values it returns.  The code keeps no state outside a frame.            *)
(*                                                                         *)
(* Go strings that the code takes apart (protocol specifiers, image EXPOSE *)
(* statements) are sequences of lexemes: "tcp,udp" is <<"tcp",",","udp">>, *)
(* "53/udp" is <<"5","3","/","udp">>, "" is <<>>.  Host IPs, which the     *)
(* code only compares and hands to net.ParseIP, are atomic strings.        *)
(* A Go map is a function on the set of its keys; reading a missing key    *)
(* yields the zero value.  A nil-able value is <<>> (nil) or <<v>>.        *)
(***************************************************************************)
EXTENDS Integers, Sequences, FiniteSets, TLC

VARIABLES frame

vars == <<frame>>

(***************************************************************************)
(* Program constants                                                       *)
(***************************************************************************)
protoTCP == <<"tcp">>
protoUDP == <<"udp">>
protoSCTP == <<"sctp">>

\* uint16 holds 0..65535; sums of uint16 wrap modulo 65536.
Uint16Mod == 65536
\* bound of the container port range check
MaxContainerPort == 65535
\* bound of the host port range check
MaxHostPortSum == 65536
\* the retry budget of one auto-published (port, protocol) pair
MaxTries == 15
\* image EXPOSE numbers: num > 65535 || num < 1 is rejected
MaxExposeNum == 65535
MinExposeNum == 1

(***************************************************************************)
(* Bounds of the model                                                     *)
(***************************************************************************)
\* longest list of port mapping requests in one call
MaxReqs == 2
\* largest Range of a request
MaxRange == 3
\* longest protocol specifier, in lexemes
MaxSpecLen == 3

(***************************************************************************)
(* Go values                                                               *)
(***************************************************************************)
EmptyMap == [k \in {} |-> 0]

MapGet(m, k) == IF k \in DOMAIN m THEN m[k] ELSE 0

MapPut(m, k, v) == [x \in (DOMAIN m) \cup {k} |-> IF x = k THEN v ELSE m[x]]

\* the inner map of a two-level map, empty when the key is missing
Inner(m, k) == IF k \in DOMAIN m THEN m[k] ELSE EmptyMap

Nil == <<>>

Some(v) == <<v>>

NoErr == ""

RECURSIVE Split(_, _)
\* strings.Split(s, sep): the components between the separators
Split(s, sep) ==
    IF \E i \in 1..Len(s) : s[i] = sep
    THEN LET i == CHOOSE i \in 1..Len(s) :
                     s[i] = sep /\ \A j \in 1..(i - 1) : s[j] # sep
         IN  <<SubSeq(s, 1, i - 1)>> \o Split(SubSeq(s, i + 1, Len(s)), sep)
    ELSE <<s>>

\* strings.SplitN(s, sep, 2): cut at the first separator only
SplitN2(s, sep) ==
    IF \E i \in 1..Len(s) : s[i] = sep
    THEN LET i == CHOOSE i \in 1..Len(s) :
                     s[i] = sep /\ \A j \in 1..(i - 1) : s[j] # sep
         IN  <<SubSeq(s, 1, i - 1), SubSeq(s, i + 1, Len(s))>>
    ELSE <<s>>

Digits == {"0", "1", "2", "3", "4", "5", "6", "7", "8", "9"}

DigitVal(d) ==
    CASE d = "0" -> 0 [] d = "1" -> 1 [] d = "2" -> 2 [] d = "3" -> 3
      [] d = "4" -> 4 [] d = "5" -> 5 [] d = "6" -> 6 [] d = "7" -> 7
      [] d = "8" -> 8 [] d = "9" -> 9

RECURSIVE AtoiVal(_)
AtoiVal(s) ==
    IF s = <<>> THEN 0
    ELSE 10 * AtoiVal(SubSeq(s, 1, Len(s) - 1)) + DigitVal(s[Len(s)])

\* strconv.Atoi on an unsigned decimal: [ok, num]
Atoi(s) ==
    IF s # <<>> /\ \A i \in 1..Len(s) : s[i] \in Digits
    THEN [ok |-> TRUE, num |-> AtoiVal(s)]
    ELSE [ok |-> FALSE, num |-> 0]

RECURSIVE Perms(_)
\* every order in which a Go map range can visit the keys S
Perms(S) ==
    IF S = {} THEN {<<>>}
    ELSE UNION {{<<x>> \o q : q \in Perms(S \ {x})} : x \in S}

RECURSIVE SeqsUpTo(_, _)
SeqsUpTo(S, n) ==
    IF n = 0 THEN {<<>>}
    ELSE LET shorter == SeqsUpTo(S, n - 1)
         IN  shorter \cup {Append(q, x) : q \in shorter, x \in S}

Elems(s) == {s[i] : i \in 1..Len(s)}

(***************************************************************************)
(* checkProtocol                                                           *)
(***************************************************************************)
\* faulty variant: sctp is let through whatever the caller allows
ProtoCaseSctpAllowed(p, allowSCTP) ==
    IF p = protoTCP \/ p = <<>> THEN [err |-> NoErr, proto |-> protoTCP]
    ELSE IF p = protoUDP THEN [err |-> NoErr, proto |-> protoUDP]
    ELSE IF p = protoSCTP THEN [err |-> NoErr, proto |-> protoSCTP]
    ELSE [err |-> "InvalidProtocol", proto |-> p]

\* faulty variant: the empty component is not taken for tcp
ProtoCaseNoDefault(p, allowSCTP) ==
    IF p = protoTCP THEN [err |-> NoErr, proto |-> protoTCP]
    ELSE IF p = protoUDP THEN [err |-> NoErr, proto |-> protoUDP]
    ELSE IF p = protoSCTP
         THEN IF ~allowSCTP THEN [err |-> "ProtocolNotAllowed", proto |-> p]
              ELSE [err |-> NoErr, proto |-> protoSCTP]
    ELSE [err |-> "InvalidProtocol", proto |-> p]

\* the case of the switch a component falls in: the protocol it adds, or
\* the error it returns
ProtoCase(p, allowSCTP) ==
    IF p = protoTCP \/ p = <<>> THEN [err |-> NoErr, proto |-> protoTCP]
    ELSE IF p = protoUDP THEN [err |-> NoErr, proto |-> protoUDP]
    ELSE IF p = protoSCTP
         THEN IF ~allowSCTP THEN [err |-> "ProtocolNotAllowed", proto |-> p]
              ELSE [err |-> NoErr, proto |-> protoSCTP]
    ELSE [err |-> "InvalidProtocol", proto |-> p]

RECURSIVE ScanProto(_, _, _)
\* the loop over splitProto: the set gathered, or the first error met
ScanProto(splitProto, allowSCTP, protocols) ==
    IF splitProto = <<>> THEN [err |-> NoErr, set |-> protocols]
    ELSE LET c == ProtoCase(Head(splitProto), allowSCTP)
         IN  IF c.err # NoErr THEN [err |-> c.err, set |-> {}]
             ELSE ScanProto(Tail(splitProto), allowSCTP, protocols \cup {c.proto})

\* every result checkProtocol(protocol, allowSCTP) can return: the list is
\* filled by ranging over a map, so any order of the set can come out
checkProtocol(protocol, allowSCTP) ==
    LET scan == ScanProto(Split(protocol, ","), allowSCTP, {})
    IN  IF scan.err # NoErr THEN {[err |-> scan.err, protocols |-> <<>>]}
        ELSE IF scan.set = {} THEN {[err |-> "NoValidProtocol", protocols |-> <<>>]}
        ELSE {[err |-> NoErr, protocols |-> q] : q \in Perms(scan.set)}

(***************************************************************************)
(* Frames                                                                  *)
(***************************************************************************)
Protos == {protoTCP, protoUDP, protoSCTP}

\* net.ParseIP on the host IPs of the model: nil for anything that is not
\* the text of an IP address, the empty string included
ValidIPs == {"0.0.0.0", "127.0.0.1"}

ParseIP(s) == s \in ValidIPs

\* the frame of one call: the arguments (the fields of s and img), then the
\* locals of parsePortMapping as they are when its range loop is first
\* reached, the tables holding an empty map for each of the three protocols,
\* then the locals of createPortMappings, not yet assigned.  hostPortInt is
\* the int hostPort of createPortMappings, candidate the last port that
\* getRandomPort returned; probes counts the calls of
\* getRandomPort made for the (port, protocol) pair that is being published
NewFrame(portMappings, Expose, img, publish) ==
    [portMappings |-> portMappings,
     Expose |-> Expose,
     img |-> img,
     PublishExposedPorts |-> publish,
     pc |-> "parse_range",
     finalMappings |-> <<>>,
     hostPortValidate |-> [p \in Protos |-> EmptyMap],
     containerPortValidate |-> [p \in Protos |-> EmptyMap],
     ri |-> 1,
     protocols |-> <<>>,
     pIdx |-> 0,
     hostIP |-> "",
     len |-> 0,
     containerPort |-> 0,
     hostPort |-> 0,
     index |-> 0,
     parseRet |-> Nil,
     expose |-> EmptyMap,
     imgTodo |-> {},
     exposeTodo |-> {},
     toExpose |-> EmptyMap,
     toExposeTodo |-> {},
     port |-> 0,
     protoIdx |-> 0,
     hostPortInt |-> 0,
     tries |-> 0,
     candidate |-> 0,
     probes |-> 0,
     probeLog |-> <<>>,
     createRet |-> Nil]

\* return nil, nil, nil, err
ParseFail(f, e) ==
    [f EXCEPT !.pc = "parse_returned",
              !.parseRet = Some([mappings |-> Nil, ctr |-> Nil, host |-> Nil,
                                 err |-> e])]

(***************************************************************************)
(* parsePortMapping                                                        *)
(***************************************************************************)
\* faulty variant: the empty host IP is not read as "0.0.0.0"
NormalizeHostIPKept(ip) == ip

\* hostIP := port.HostIP; if hostIP == "" { hostIP = "0.0.0.0" }
NormalizeHostIP(ip) == IF ip = "" THEN "0.0.0.0" ELSE ip

NormalizeRange(n) == IF n = 0 THEN 1 ELSE n

DefaultHostPort(hostPort, containerPort) ==
    IF hostPort = 0 THEN containerPort ELSE hostPort

\* faulty variant: the container port range is held to the host port's bound
ContainerRangeExceedsLax(len, containerPort) ==
    (len - 1) + containerPort > MaxHostPortSum

\* uint32(len-1)+uint32(containerPort) > 65535
ContainerRangeExceeds(len, containerPort) ==
    (len - 1) + containerPort > MaxContainerPort

\* uint32(len-1)+uint32(hostPort) > 65536
HostRangeExceeds(len, hostPort) ==
    (len - 1) + hostPort > MaxHostPortSum

\* uint16 addition
AddU16(a, b) == (a + b) % Uint16Mod

\* the head of one iteration of the loop over portMappings, up to the loop
\* over protocols; r is what checkProtocol(port.Protocol, true) returned
ParseRequestStep(f, r) ==
    LET port == f.portMappings[f.ri]
        hostIP == NormalizeHostIP(port.HostIP)
        len == NormalizeRange(port.Range)
        containerPort == port.ContainerPort
        hostPort == DefaultHostPort(port.HostPort, containerPort)
    IN  IF r.err # NoErr THEN ParseFail(f, r.err)
        ELSE IF ~ParseIP(hostIP) THEN ParseFail(f, "InvalidHostIP")
        ELSE IF containerPort = 0 THEN ParseFail(f, "ZeroContainerPort")
        ELSE IF ContainerRangeExceeds(len, containerPort)
             THEN ParseFail(f, "ContainerPortRangeOverflow")
        ELSE IF HostRangeExceeds(len, hostPort)
             THEN ParseFail(f, "HostPortRangeOverflow")
        ELSE [f EXCEPT !.protocols = r.protocols, !.pIdx = 1,
                       !.hostIP = hostIP, !.len = len,
                       !.containerPort = containerPort,
                       !.hostPort = hostPort, !.pc = "parse_proto"]

\* the head of one iteration of the loop over protocols: the maps of this
\* host IP are made when missing
ParseProtocolStep(f) ==
    LET p == f.protocols[f.pIdx]
        Ensure(ipMap) == IF f.hostIP \in DOMAIN ipMap THEN ipMap
                         ELSE MapPut(ipMap, f.hostIP, EmptyMap)
    IN  [f EXCEPT !.hostPortValidate[p] = Ensure(@),
                  !.containerPortValidate[p] = Ensure(@),
                  !.index = 0, !.pc = "parse_pair"]

\* faulty variant: the container port side is not checked
RedefinesContainerPortUnchecked(testCPort, hPort) == FALSE

\* testCPort != 0 && testCPort != hPort
RedefinesContainerPort(testCPort, hPort) == testCPort # 0 /\ testCPort # hPort

\* faulty variant: the host port side is not checked
RedefinesHostPortUnchecked(testHPort, cPort) == FALSE

\* testHPort != 0 && testHPort != cPort
RedefinesHostPort(testHPort, cPort) == testHPort # 0 /\ testHPort # cPort

\* faulty variant: an exact duplicate is emitted again
ExactDuplicateIgnored(testCPort, testHPort, cPort, hPort) == FALSE

\* testCPort == hPort && testHPort == cPort
ExactDuplicate(testCPort, testHPort, cPort, hPort) ==
    testCPort = hPort /\ testHPort = cPort

\* where control goes after the body of the innermost loop: the next
\* offset, the next protocol or the next request
ParseAdvance(f) ==
    IF f.index + 1 < f.len THEN [f EXCEPT !.index = @ + 1]
    ELSE IF f.pIdx < Len(f.protocols)
         THEN [f EXCEPT !.index = @ + 1, !.pIdx = @ + 1, !.pc = "parse_proto"]
    ELSE [f EXCEPT !.index = @ + 1, !.ri = @ + 1, !.pc = "parse_range"]

cPortOf(f) == AddU16(f.containerPort, f.index)

\* faulty variant: the offset is not added to the host port
hPortOfNoOffset(f) == f.hostPort

\* faulty variant: the sum is not taken in 16 bits
hPortOfWide(f) == f.hostPort + f.index

\* hPort := hostPort + index
hPortOf(f) == AddU16(f.hostPort, f.index)

\* one iteration of the loop over the offsets of the range
ParsePairStep(f) ==
    LET p == f.protocols[f.pIdx]
        cPort == cPortOf(f)
        hPort == hPortOf(f)
        ctrPortMap == f.containerPortValidate[p][f.hostIP]
        hostPortMap == f.hostPortValidate[p][f.hostIP]
        testCPort == MapGet(ctrPortMap, cPort)
        testHPort == MapGet(hostPortMap, hPort)
        f1 == [f EXCEPT !.containerPortValidate[p][f.hostIP] =
                            MapPut(ctrPortMap, cPort, hPort)]
        f2 == [f1 EXCEPT !.hostPortValidate[p][f.hostIP] =
                            MapPut(hostPortMap, hPort, cPort)]
        cniPort == [HostPort |-> hPort, ContainerPort |-> cPort,
                    Protocol |-> p, HostIP |-> f.portMappings[f.ri].HostIP]
    IN  IF cPort = 0 \/ hPort = 0 THEN ParseFail(f, "ZeroPortInExpansion")
        ELSE IF RedefinesContainerPort(testCPort, hPort)
             THEN ParseFail(f, "ConflictingContainerPort")
        ELSE IF RedefinesHostPort(testHPort, cPort)
             THEN ParseFail(f1, "ConflictingHostPort")
        ELSE IF ExactDuplicate(testCPort, testHPort, cPort, hPort)
             THEN ParseAdvance(f2)
        ELSE ParseAdvance([f2 EXCEPT !.finalMappings = Append(@, cniPort)])

\* return finalMappings, containerPortValidate, hostPortValidate, nil
ParseReturnStep(f) ==
    [f EXCEPT !.pc = "parse_returned",
              !.parseRet = Some([mappings |-> Some(f.finalMappings),
                                 ctr |-> Some(f.containerPortValidate),
                                 host |-> Some(f.hostPortValidate),
                                 err |-> NoErr])]

ParseRequest(c) ==
    /\ frame[c].pc = "parse_range"
    /\ frame[c].ri <= Len(frame[c].portMappings)
    /\ \E r \in checkProtocol(frame[c].portMappings[frame[c].ri].Protocol, TRUE) :
          frame' = [frame EXCEPT ![c] = ParseRequestStep(frame[c], r)]

ParseProtocol(c) ==
    /\ frame[c].pc = "parse_proto"
    /\ frame' = [frame EXCEPT ![c] = ParseProtocolStep(frame[c])]

ParsePair(c) ==
    /\ frame[c].pc = "parse_pair"
    /\ frame' = [frame EXCEPT ![c] = ParsePairStep(frame[c])]

ParseReturn(c) ==
    /\ frame[c].pc = "parse_range"
    /\ frame[c].ri > Len(frame[c].portMappings)
    /\ frame' = [frame EXCEPT ![c] = ParseReturnStep(frame[c])]

(***************************************************************************)
(* Inputs of parsePortMapping                                              *)
(***************************************************************************)
Lexemes == {"tcp", "udp", "sctp", "foo", ","}

\* every protocol specifier of at most MaxSpecLen lexemes
AllSpecs == SeqsUpTo(Lexemes, MaxSpecLen)

\* port numbers at both ends of uint16
EdgePorts == {0, 1, 2, 65533, 65534, 65535}

Request(c, h, n, proto, ip) ==
    [ContainerPort |-> c, HostPort |-> h, Range |-> n, Protocol |-> proto,
     HostIP |-> ip]

\* requests that are submitted alone: every combination of the edge ports
\* and ranges, every specifier, every host IP
LoneRequests ==
    {Request(c, h, n, proto, "") :
        c \in EdgePorts, h \in EdgePorts, n \in 0..MaxRange,
        proto \in {<<>>, <<"udp", ",", "tcp">>}}
    \cup {Request(1, 2, 1, proto, "") : proto \in AllSpecs}
    \cup {Request(1, 2, 2, <<"tcp">>, ip) :
             ip \in {"", "0.0.0.0", "127.0.0.1", "localhost"}}

\* requests that are submitted in lists: they meet on two container ports
\* and two host ports, under shared and distinct protocols and host IPs
ListRequests ==
    {Request(c, h, n, k[1], k[2]) :
        c \in {1, 2}, h \in {1, 2}, n \in {1, 2},
        k \in {<<<<>>, "">>, <<<<"tcp", ",", "udp">>, "0.0.0.0">>,
               <<<<"udp">>, "127.0.0.1">>}}

(***************************************************************************)
(* getRandomPort                                                           *)
(***************************************************************************)
\* the ports the host's listener is given in the model
ProbePorts == {1, 2, 3}

\* faulty variant: the listener is never closed, so that a port handed to a
\* call that kept it is handed to no call again
getRandomPortReserved ==
    {[err |-> NoErr, port |-> v] :
        v \in ProbePorts \
              UNION {{frame[c].finalMappings[i].HostPort :
                         i \in {j \in 1..Len(frame[c].finalMappings) :
                                   frame[c].finalMappings[j].HostIP = ""}} :
                     c \in DOMAIN frame}}
    \cup {[err |-> "PortProbeFailed", port |-> 0]}

\* every result of getRandomPort: a port of the host, or an error
getRandomPort ==
    {[err |-> NoErr, port |-> v] : v \in ProbePorts}
    \cup {[err |-> "PortProbeFailed", port |-> 0]}

(***************************************************************************)
(* createPortMappings                                                      *)
(***************************************************************************)
\* faulty variant: the entries made so far are returned with the error
CreateFailPartial(f, e) ==
    [f EXCEPT !.pc = "returned",
              !.createRet = Some([mappings |-> Some(f.finalMappings),
                                  err |-> e])]

\* return nil, err
CreateFail(f, e) ==
    [f EXCEPT !.pc = "returned",
              !.createRet = Some([mappings |-> Nil, err |-> e])]

\* return finalMappings, nil
CreateOk(f) ==
    [f EXCEPT !.pc = "returned",
              !.createRet = Some([mappings |-> Some(f.finalMappings),
                                  err |-> NoErr])]

\* faulty variant: s.PublishExposedPorts is not looked at
NothingToPublishAnyFlag(f) == DOMAIN f.Expose = {} /\ f.img = Nil

\* !s.PublishExposedPorts || (len(s.Expose) == 0 && img == nil)
NothingToPublish(f) ==
    ~f.PublishExposedPorts \/ (DOMAIN f.Expose = {} /\ f.img = Nil)

\* where the loop over expose goes next: the loop over toExpose when no
\* entry is left
ExposeAdvance(f) ==
    IF f.exposeTodo # {} THEN f
    ELSE [f EXCEPT !.pc = "alloc_range", !.toExposeTodo = DOMAIN f.toExpose]

\* where the loop over the image's EXPOSE statements goes next: the loop
\* over expose when no statement is left
MergeAdvance(f) ==
    IF f.imgTodo # {} THEN [f EXCEPT !.pc = "merge_image"]
    ELSE ExposeAdvance([f EXCEPT !.pc = "expose_range",
                                 !.exposeTodo = DOMAIN f.expose])

\* from the return of parsePortMapping to the loop over the image's EXPOSE
\* statements: the early returns, the copy of s.Expose, the inspection
CreateBeginStep(f) ==
    LET ret == f.parseRet[1]
    IN  IF ret.err # NoErr THEN CreateFail(f, ret.err)
        ELSE IF NothingToPublish(f) THEN CreateOk(f)
        ELSE IF f.img = Nil
             THEN MergeAdvance([f EXCEPT !.expose = f.Expose])
        ELSE IF f.img[1].inspectErr
             THEN CreateFail([f EXCEPT !.expose = f.Expose], "InspectFailed")
        ELSE MergeAdvance([f EXCEPT !.expose = f.Expose,
                                    !.imgTodo = f.img[1].ExposedPorts])

\* num > 65535 || num < 1
BadExposeNum(num) == num > MaxExposeNum \/ num < MinExposeNum

\* the protocol an EXPOSE statement names, tcp when it names none
ExposeProto(splitExpose) ==
    IF Len(splitExpose) = 1 THEN protoTCP ELSE splitExpose[2]

\* one iteration of the loop over inspect.Config.ExposedPorts
MergeImageStep(f, imgExpose) ==
    LET splitExpose == SplitN2(imgExpose, "/")
        a == Atoi(splitExpose[1])
        g == [f EXCEPT !.imgTodo = @ \ {imgExpose}]
    IN  IF ~a.ok THEN CreateFail(g, "InvalidExposeSpec")
        ELSE IF BadExposeNum(a.num) THEN CreateFail(g, "InvalidExposeSpec")
        ELSE MergeAdvance([g EXCEPT !.expose =
                              MapPut(@, a.num % Uint16Mod, ExposeProto(splitExpose))])

\* faulty variant: the claim on the container port is not looked at
UnclaimedAlways(ctrPortMap, port) == TRUE

\* faulty variant: the test is inverted
UnclaimedInverted(ctrPortMap, port) == MapGet(ctrPortMap, port) # 0

\* portNum == 0: the container port is not claimed under "0.0.0.0"
Unclaimed(ctrPortMap, port) == MapGet(ctrPortMap, port) = 0

RECURSIVE MarkProtocols(_, _, _)
\* the loop over the protocols of one expose entry: the maps of "0.0.0.0"
\* are made when missing, and each protocol under which the port is not
\* yet claimed is appended to toExpose[port]
MarkProtocols(f, port, protocols) ==
    IF protocols = <<>> THEN f
    ELSE LET p == Head(protocols)
             ipMap == f.containerPortValidate[p]
             ctrPortMap == Inner(ipMap, "0.0.0.0")
             f1 == [f EXCEPT !.containerPortValidate[p] =
                                MapPut(ipMap, "0.0.0.0", ctrPortMap)]
             exposeProto == IF port \in DOMAIN f.toExpose
                            THEN f.toExpose[port] ELSE <<>>
             f2 == IF Unclaimed(ctrPortMap, port)
                   THEN [f1 EXCEPT !.toExpose =
                                     MapPut(@, port, Append(exposeProto, p))]
                   ELSE f1
         IN  MarkProtocols(f2, port, Tail(protocols))

\* one iteration of the loop over expose; r is what
\* checkProtocol(proto, false) returned
ExposeEntryStep(f, port, r) ==
    LET g == [f EXCEPT !.exposeTodo = @ \ {port}]
    IN  IF r.err # NoErr THEN CreateFail(g, r.err)
        ELSE IF port = 0 THEN CreateFail(g, "ZeroExposePort")
        ELSE ExposeAdvance(MarkProtocols(g, port, r.protocols))

\* the head of one iteration of the loop over toExpose, and of its loop
\* over protocols: hostPort := 0, tries := 15
AllocBeginStep(f, port) ==
    [f EXCEPT !.port = port, !.protoIdx = 1, !.hostPortInt = 0,
              !.tries = MaxTries, !.probes = 0, !.pc = "alloc_try",
              !.toExposeTodo = @ \ {port}]

\* faulty variant: the candidate is never looked up
AlreadyAllocatedNever(hostPortMap, candidate) == FALSE

\* checkPort != 0: the candidate is a key of the host port map
AlreadyAllocated(hostPortMap, candidate) ==
    MapGet(hostPortMap, candidate % Uint16Mod) # 0

\* faulty variant: the loop does not look at the budget
KeepTryingUnbounded(hostPort, tries) == hostPort = 0

\* hostPort == 0 && tries > 0
KeepTrying(hostPort, tries) == hostPort = 0 /\ tries > 0

\* tries == 0 && hostPort == 0
OutOfTries(hostPort, tries) == tries = 0 /\ hostPort = 0

\* where control goes when the retry loop is left; hostPort and tries are
\* locals of the body of the loop over protocols and end with it
AllocAdvance(f) ==
    IF KeepTrying(f.hostPortInt, f.tries) THEN f
    ELSE IF OutOfTries(f.hostPortInt, f.tries)
         THEN CreateFail(f, "PortAllocationExhausted")
    ELSE IF f.protoIdx < Len(f.toExpose[f.port])
         THEN [f EXCEPT !.protoIdx = @ + 1, !.hostPortInt = 0,
                        !.tries = MaxTries, !.probes = 0, !.candidate = 0]
    ELSE [f EXCEPT !.hostPortInt = 0, !.tries = 0, !.probes = 0,
                   !.candidate = 0, !.pc = "alloc_range"]

\* faulty variant: a failed probe is counted as a collision and retried
ProbeStepRetries(f, r) ==
    LET p == f.toExpose[f.port][f.protoIdx]
        candidate == r.port
        ipMap == f.hostPortValidate[p]
        hostPortMap == Inner(ipMap, "0.0.0.0")
        g == [f EXCEPT !.probes = @ + 1, !.candidate = r.port]
        f1 == [g EXCEPT !.hostPortValidate[p] =
                           MapPut(ipMap, "0.0.0.0", hostPortMap)]
        cniPort == [HostPort |-> candidate, ContainerPort |-> f.port,
                    Protocol |-> p, HostIP |-> ""]
    IN  IF r.err # NoErr \/ AlreadyAllocated(hostPortMap, candidate)
        THEN AllocAdvance([f1 EXCEPT !.tries = @ - 1])
        ELSE AllocAdvance(
                 [f1 EXCEPT !.hostPortValidate[p]["0.0.0.0"] =
                                MapPut(hostPortMap, candidate % Uint16Mod, f.port),
                            !.hostPortInt = candidate,
                            !.finalMappings = Append(@, cniPort)])

\* one iteration of the retry loop; r is what getRandomPort returned
ProbeStep(f, r) ==
    LET p == f.toExpose[f.port][f.protoIdx]
        candidate == r.port
        ipMap == f.hostPortValidate[p]
        hostPortMap == Inner(ipMap, "0.0.0.0")
        g == [f EXCEPT !.probes = @ + 1, !.candidate = r.port]
        f1 == [g EXCEPT !.hostPortValidate[p] =
                           MapPut(ipMap, "0.0.0.0", hostPortMap)]
        cniPort == [HostPort |-> candidate, ContainerPort |-> f.port,
                    Protocol |-> p, HostIP |-> ""]
    IN  IF r.err # NoErr THEN CreateFail(g, r.err)
        ELSE IF AlreadyAllocated(hostPortMap, candidate)
             THEN AllocAdvance([f1 EXCEPT !.tries = @ - 1])
        ELSE AllocAdvance(
                 [f1 EXCEPT !.hostPortValidate[p]["0.0.0.0"] =
                                MapPut(hostPortMap, candidate % Uint16Mod, f.port),
                            !.hostPortInt = candidate,
                            !.finalMappings = Append(@, cniPort)])

CreateBegin(c) ==
    /\ frame[c].pc = "parse_returned"
    /\ frame' = [frame EXCEPT ![c] = CreateBeginStep(frame[c])]

MergeImage(c) ==
    /\ frame[c].pc = "merge_image"
    /\ \E imgExpose \in frame[c].imgTodo :
          frame' = [frame EXCEPT ![c] = MergeImageStep(frame[c], imgExpose)]

ExposeEntry(c) ==
    /\ frame[c].pc = "expose_range"
    /\ \E port \in frame[c].exposeTodo :
          \E r \in checkProtocol(frame[c].expose[port], FALSE) :
             frame' = [frame EXCEPT ![c] = ExposeEntryStep(frame[c], port, r)]

AllocBegin(c) ==
    /\ frame[c].pc = "alloc_range"
    /\ \E port \in frame[c].toExposeTodo :
          frame' = [frame EXCEPT ![c] = AllocBeginStep(frame[c], port)]

Probe(c) ==
    /\ frame[c].pc = "alloc_try"
    /\ \E r \in getRandomPort :
          frame' = [frame EXCEPT ![c] = ProbeStep(frame[c], r)]

CreateReturn(c) ==
    /\ frame[c].pc = "alloc_range"
    /\ frame[c].toExposeTodo = {}
    /\ frame' = [frame EXCEPT ![c] = CreateOk(frame[c])]

(***************************************************************************)
(* Inputs of createPortMappings                                            *)
(***************************************************************************)
\* request lists with nothing to publish: parsePortMapping decides the call
ParseInputs ==
    SeqsUpTo(ListRequests, MaxReqs) \cup {<<r>> : r \in LoneRequests}

\* the requests of the calls that publish exposed ports
PublishRequests ==
    {Request(1, 1, 1, <<>>, ""),
     Request(1, 2, 1, <<"tcp">>, "127.0.0.1"),
     Request(2, 3, 1, <<"sctp", ",", "udp">>, "0.0.0.0")}

ExposeSpecs ==
    {<<"tcp">>, <<"udp">>, <<"udp", ",", "tcp">>, <<"sctp">>,
     <<"foo", ",", "sctp">>}

\* s.Expose: every map of container ports 1 and 2 to a specifier, and port 0
ExposeMaps ==
    UNION {[D -> ExposeSpecs] : D \in SUBSET {1, 2}}
    \cup {[k \in {0} |-> <<"tcp">>]}

\* the EXPOSE statements of the images: "1", "1/udp", "2/udp,tcp",
\* "2/sctp", "0", "65536", "/tcp"
ImageExposes ==
    {<<"1">>, <<"1", "/", "udp">>, <<"2", "/", "udp", ",", "tcp">>,
     <<"2", "/", "sctp">>, <<"0">>, <<"6", "5", "5", "3", "6">>,
     <<"/", "tcp">>}

\* img: nil, an image whose inspection fails, or an image declaring at most
\* two EXPOSE statements
Images ==
    {Nil, Some([inspectErr |-> TRUE, ExposedPorts |-> {}])}
    \cup {Some([inspectErr |-> FALSE, ExposedPorts |-> E]) :
             E \in {E \in SUBSET ImageExposes : Cardinality(E) <= 2}}

Input(pm, ex, img, pub) ==
    [portMappings |-> pm, Expose |-> ex, img |-> img, publish |-> pub]

Inputs ==
    {Input(pm, EmptyMap, Nil, FALSE) : pm \in ParseInputs}
    \cup {Input(pm, ex, Nil, pub) :
             pm \in SeqsUpTo(PublishRequests, MaxReqs), ex \in ExposeMaps,
             pub \in BOOLEAN}
    \cup {Input(pm, ex, img, TRUE) :
             pm \in SeqsUpTo(PublishRequests, 1),
             ex \in {e \in ExposeMaps : Cardinality(DOMAIN e) <= 1},
             img \in Images}

Init ==
    \E in \in Inputs :
        frame = [c \in {1} |->
                    NewFrame(in.portMappings, in.Expose, in.img, in.publish)]

Next ==
    \/ \E c \in DOMAIN frame : ParseRequest(c)
    \/ \E c \in DOMAIN frame : ParseProtocol(c)
    \/ \E c \in DOMAIN frame : ParsePair(c)
    \/ \E c \in DOMAIN frame : ParseReturn(c)
    \/ \E c \in DOMAIN frame : CreateBegin(c)
    \/ \E c \in DOMAIN frame : MergeImage(c)
    \/ \E c \in DOMAIN frame : ExposeEntry(c)
    \/ \E c \in DOMAIN frame : AllocBegin(c)
    \/ \E c \in DOMAIN frame : Probe(c)
    \/ \E c \in DOMAIN frame : CreateReturn(c)

Spec == Init /\ [][Next]_vars

(***************************************************************************)
(* Two runs of createPortMappings on one input                             *)
(***************************************************************************)
\* the inputs of the repeated runs: a request naming two protocols, two
\* exposed ports of which one names two protocols, and an image
RunsInputs ==
    {Input(<<Request(1, 1, 1, <<"udp", ",", "tcp">>, "")>>, EmptyMap, Nil, FALSE),
     Input(<<>>, (1 :> <<"udp", ",", "tcp">>) @@ (2 :> <<"tcp">>), Nil, TRUE),
     Input(<<Request(1, 1, 1, <<>>, "")>>, (2 :> <<"udp">>),
           Some([inspectErr |-> FALSE, ExposedPorts |-> {<<"1", "/", "udp">>}]),
           TRUE),
     Input(<<>>, (1 :> <<"tcp">>), Nil, TRUE)}

\* the runs start from the same input
InitRuns ==
    \E in \in RunsInputs :
        frame = [c \in {1, 2} |->
                    NewFrame(in.portMappings, in.Expose, in.img, in.publish)]

\* the runs follow one another
Turn(c) == \A d \in DOMAIN frame : d < c => frame[d].pc = "returned"

\* getRandomPort returns to a run, as its n-th result, the n-th result it
\* returned to every other run that got that far; the results are logged
ProbeLogged(c) ==
    /\ frame[c].pc = "alloc_try"
    /\ \E r \in getRandomPort :
          LET n == Len(frame[c].probeLog) + 1
          IN  /\ \A d \in DOMAIN frame \ {c} :
                    n <= Len(frame[d].probeLog) => r = frame[d].probeLog[n]
              /\ frame' = [frame EXCEPT ![c] =
                               [ProbeStep(frame[c], r) EXCEPT
                                   !.probeLog = Append(frame[c].probeLog, r)]]

NextRuns ==
    \/ \E c \in DOMAIN frame : Turn(c) /\ ParseRequest(c)
    \/ \E c \in DOMAIN frame : Turn(c) /\ ParseProtocol(c)
    \/ \E c \in DOMAIN frame : Turn(c) /\ ParsePair(c)
    \/ \E c \in DOMAIN frame : Turn(c) /\ ParseReturn(c)
    \/ \E c \in DOMAIN frame : Turn(c) /\ CreateBegin(c)
    \/ \E c \in DOMAIN frame : Turn(c) /\ MergeImage(c)
    \/ \E c \in DOMAIN frame : Turn(c) /\ ExposeEntry(c)
    \/ \E c \in DOMAIN frame : Turn(c) /\ AllocBegin(c)
    \/ \E c \in DOMAIN frame : Turn(c) /\ ProbeLogged(c)
    \/ \E c \in DOMAIN frame : Turn(c) /\ CreateReturn(c)

SpecRuns == InitRuns /\ [][NextRuns]_vars

(***************************************************************************)
(* Two concurrent calls of createPortMappings                              *)
(***************************************************************************)
\* the inputs of the concurrent calls: a request naming two protocols, an
\* exposed port next to an explicit request and an image, and an exposed
\* port alone
ConcInputs ==
    {Input(<<Request(1, 1, 1, <<"udp", ",", "tcp">>, "")>>, EmptyMap, Nil, FALSE),
     Input(<<Request(1, 1, 1, <<>>, "")>>, (2 :> <<"udp">>),
           Some([inspectErr |-> FALSE, ExposedPorts |-> {<<"1", "/", "udp">>}]),
           TRUE),
     Input(<<>>, (1 :> <<"udp">>), Nil, TRUE)}

\* each call has its own arguments, and its own list and tables, which
\* parsePortMapping makes when the call begins
InitConc ==
    \E in1 \in ConcInputs, in2 \in ConcInputs :
        frame = [c \in {1, 2} |->
                    IF c = 1
                    THEN NewFrame(in1.portMappings, in1.Expose, in1.img,
                                  in1.publish)
                    ELSE NewFrame(in2.portMappings, in2.Expose, in2.img,
                                  in2.publish)]

\* the steps of the two calls interleave in every way
SpecConc == InitConc /\ [][Next]_vars

(***************************************************************************)
(* Vocabulary of the properties                                            *)
(***************************************************************************)
ParseReturned(f) == f.parseRet # Nil

ParseErr(f) == IF ParseReturned(f) THEN f.parseRet[1].err ELSE "pending"

ParseOk(f) == ParseReturned(f) /\ f.parseRet[1].err = NoErr

ParseList(f) == f.parseRet[1].mappings[1]

CreateReturned(f) == f.createRet # Nil

CreateErr(f) == IF CreateReturned(f) THEN f.createRet[1].err ELSE "pending"

CreateSucceeded(f) == CreateReturned(f) /\ f.createRet[1].err = NoErr

CreateList(f) == f.createRet[1].mappings[1]

\* an entry's host IP with the empty string read as "0.0.0.0"
ResolvedIP(ip) == IF ip = "" THEN "0.0.0.0" ELSE ip

\* the protocols a specifier names, an empty component counted as tcp
Named(spec) ==
    {IF t = <<>> THEN protoTCP ELSE t : t \in Elems(Split(spec, ","))}

ReqLen(r) == IF r.Range = 0 THEN 1 ELSE r.Range

ReqHostPort(r) == IF r.HostPort = 0 THEN r.ContainerPort ELSE r.HostPort

\* the (protocol, host IP, container port, host port) tuples a request asks for
ReqTuples(r) ==
    {<<p, ResolvedIP(r.HostIP), r.ContainerPort + i, ReqHostPort(r) + i>> :
        p \in Named(r.Protocol), i \in 0..(ReqLen(r) - 1)}

AllTuples(pm) == UNION {ReqTuples(pm[k]) : k \in 1..Len(pm)}

EntryTuple(e) == <<e.Protocol, ResolvedIP(e.HostIP), e.ContainerPort, e.HostPort>>

ListTuples(l) == {EntryTuple(l[i]) : i \in 1..Len(l)}

\* a request that every check of the validator's contract lets through
ValidRequest(r) ==
    /\ Named(r.Protocol) \subseteq Protos
    /\ ResolvedIP(r.HostIP) \in ValidIPs
    /\ r.ContainerPort # 0
    /\ r.ContainerPort + ReqLen(r) - 1 <= 65535
    /\ ReqHostPort(r) + ReqLen(r) - 1 <= 65535

(***************************************************************************)
(* C1  Uniqueness                                                          *)
(***************************************************************************)
UniqueList(l) ==
    \A i, j \in 1..Len(l) :
        (i # j /\ l[i].Protocol = l[j].Protocol
               /\ ResolvedIP(l[i].HostIP) = ResolvedIP(l[j].HostIP))
        => (l[i].HostPort # l[j].HostPort
            /\ l[i].ContainerPort # l[j].ContainerPort)

\* C1: in every list that parsePortMapping or createPortMappings returns
\* without error, no two entries share (Protocol, resolved HostIP, HostPort)
\* and no two share (Protocol, resolved HostIP, ContainerPort).
C1_Uniqueness ==
    \A c \in DOMAIN frame :
        /\ ParseOk(frame[c]) => UniqueList(ParseList(frame[c]))
        /\ CreateSucceeded(frame[c]) => UniqueList(CreateList(frame[c]))

\* a returned list of parsePortMapping's entries and two auto-published
\* ones, one of which shares the protocol and the wildcard IP of an explicit
\* entry
C1_Witness ==
    \E c \in DOMAIN frame :
        /\ CreateSucceeded(frame[c])
        /\ Len(CreateList(frame[c])) >= Len(ParseList(frame[c])) + 2
        /\ \E i \in 1..Len(ParseList(frame[c])) :
              \E j \in (Len(ParseList(frame[c])) + 1)..Len(CreateList(frame[c])) :
                 LET l == CreateList(frame[c])
                 IN  /\ l[i].Protocol = l[j].Protocol
                     /\ ResolvedIP(l[i].HostIP) = ResolvedIP(l[j].HostIP)

(***************************************************************************)
(* C2  Conflict detection                                                  *)
(***************************************************************************)
\* the claim recorded for the container port, and for the host port, of the
\* pair that the frame is about to handle
ClaimOnContainerPort(f) ==
    MapGet(f.containerPortValidate[f.protocols[f.pIdx]][f.hostIP], cPortOf(f))

ClaimOnHostPort(f) ==
    MapGet(f.hostPortValidate[f.protocols[f.pIdx]][f.hostIP], hPortOf(f))

AtPair(f) == f.pc = "parse_pair" /\ cPortOf(f) # 0 /\ hPortOf(f) # 0

\* no two tuples of one protocol and host IP pair one port with two ports
NoConflict(T) ==
    \A t, u \in T :
        (t[1] = u[1] /\ t[2] = u[2]) => ((t[3] = u[3]) <=> (t[4] = u[4]))

\* C2: a pair whose container port is already claimed by another host port
\* fails the call with ConflictingContainerPort; a pair whose container port
\* is free or identically claimed and whose host port is claimed by another
\* container port fails it with ConflictingHostPort (1->1 then 2->1 under
\* tcp); no list of requests holding such a pair is accepted.
C2_ConflictDetection ==
    [][\A c \in DOMAIN frame :
          LET f == frame[c]
              g == frame'[c]
          IN  /\ AtPair(f) =>
                    /\ ClaimOnContainerPort(f) \notin {0, hPortOf(f)}
                          => ParseErr(g) = "ConflictingContainerPort"
                    /\ (/\ ClaimOnContainerPort(f) \in {0, hPortOf(f)}
                        /\ ClaimOnHostPort(f) \notin {0, cPortOf(f)})
                          => ParseErr(g) = "ConflictingHostPort"
              /\ ParseOk(g) => NoConflict(AllTuples(g.portMappings))
              /\ (/\ ParseReturned(g)
                  /\ g.portMappings = <<Request(1, 1, 1, <<>>, ""),
                                        Request(2, 1, 1, <<>>, "")>>)
                    => ParseErr(g) = "ConflictingHostPort"]_vars

\* the second request's host port is held by the first one's container port
C2_Witness ==
    \E c \in DOMAIN frame :
        /\ ParseErr(frame[c]) = "ConflictingHostPort"
        /\ frame[c].ri = 2
        /\ ClaimOnContainerPort(frame[c]) = hPortOf(frame[c])
        /\ ClaimOnHostPort(frame[c]) \notin {0, cPortOf(frame[c])}

(***************************************************************************)
(* C3  Idempotent duplicate                                                *)
(***************************************************************************)
Resubmitted(f) ==
    /\ f.ri <= Len(f.portMappings)
    /\ \E k \in 1..(f.ri - 1) : f.portMappings[k] = f.portMappings[f.ri]

\* C3: a pair that is already recorded raises no error and appends no entry;
\* while a request that was submitted before is handled again the list does
\* not change and the call does not fail; the returned list holds exactly
\* one entry for each distinct tuple requested.
C3_IdempotentDuplicate ==
    [][\A c \in DOMAIN frame :
          LET f == frame[c]
              g == frame'[c]
          IN  /\ (/\ AtPair(f)
                  /\ ClaimOnContainerPort(f) = hPortOf(f)
                  /\ ClaimOnHostPort(f) = cPortOf(f))
                    => (g.finalMappings = f.finalMappings /\ ~ParseReturned(g))
              /\ (~ParseReturned(f) /\ Resubmitted(f))
                    => (g.finalMappings = f.finalMappings /\ ~ParseReturned(g))
              /\ ParseOk(g) =>
                    /\ ListTuples(ParseList(g)) = AllTuples(g.portMappings)
                    /\ Len(ParseList(g)) = Cardinality(AllTuples(g.portMappings))]_vars

\* a request of several pairs was submitted twice and the list returned
C3_Witness ==
    \E c \in DOMAIN frame :
        /\ ParseOk(frame[c])
        /\ Len(frame[c].portMappings) = 2
        /\ frame[c].portMappings[1] = frame[c].portMappings[2]
        /\ Len(ParseList(frame[c])) = 4

(***************************************************************************)
(* C4  Range expansion                                                     *)
(***************************************************************************)
ExpectedRange(r, p) ==
    [i \in 1..ReqLen(r) |->
        [HostPort |-> ReqHostPort(r) + i - 1,
         ContainerPort |-> r.ContainerPort + i - 1,
         Protocol |-> p, HostIP |-> r.HostIP]]

\* C4: a single valid request of one protocol p yields exactly the entries
\* (c+i, h+i, p) for i in [0, n), in increasing i; Range 0 counts as 1 and
\* HostPort 0 as the container port.
C4_RangeExpansion ==
    \A c \in DOMAIN frame :
        LET f == frame[c]
            r == f.portMappings[1]
        IN  (/\ ParseReturned(f)
             /\ Len(f.portMappings) = 1
             /\ ValidRequest(r)
             /\ Cardinality(Named(r.Protocol)) = 1)
            => /\ ParseOk(f)
               /\ \A p \in Named(r.Protocol) :
                     ParseList(f) = ExpectedRange(r, p)

\* a range of three with distinct container and host ports was expanded
C4_Witness ==
    \E c \in DOMAIN frame :
        /\ ParseOk(frame[c])
        /\ Len(frame[c].portMappings) = 1
        /\ frame[c].portMappings[1].Range = 3
        /\ frame[c].portMappings[1].HostPort \notin {0, frame[c].portMappings[1].ContainerPort}
        /\ Len(ParseList(frame[c])) = 3

(***************************************************************************)
(* C5  Host-port bound                                                     *)
(***************************************************************************)
\* the request the frame is about to validate
AtRequest(f) == f.pc = "parse_range" /\ f.ri <= Len(f.portMappings)

\* the request passes the protocol, host-IP, zero-container-port and
\* container-range checks
PassesUpToContainerRange(r) ==
    /\ Named(r.Protocol) \subseteq Protos
    /\ ResolvedIP(r.HostIP) \in ValidIPs
    /\ r.ContainerPort # 0
    /\ r.ContainerPort + ReqLen(r) - 1 <= 65535

\* C5: a request that passes the earlier checks fails with
\* HostPortRangeOverflow when hostPort + range - 1 exceeds 65535, and never
\* fails with it otherwise.
C5_HostPortBound ==
    [][\A c \in DOMAIN frame :
          LET f == frame[c]
              g == frame'[c]
              r == f.portMappings[f.ri]
          IN  (AtRequest(f) /\ PassesUpToContainerRange(r)) =>
                 ((ReqHostPort(r) + ReqLen(r) - 1 > 65535)
                    <=> (ParseErr(g) = "HostPortRangeOverflow"))]_vars

\* the bound as the code has it: the error is raised from 65537 on, and a
\* request that ends on 65536 is expanded until its host port wraps to 0
HostPortBoundAsCoded ==
    [][\A c \in DOMAIN frame :
          LET f == frame[c]
              g == frame'[c]
              r == f.portMappings[f.ri]
          IN  /\ (AtRequest(f) /\ PassesUpToContainerRange(r)) =>
                    ((ReqHostPort(r) + ReqLen(r) - 1 > 65536)
                       <=> (ParseErr(g) = "HostPortRangeOverflow"))
              /\ (/\ ParseReturned(g)
                  /\ Len(g.portMappings) = 1
                  /\ PassesUpToContainerRange(g.portMappings[1])
                  /\ ReqHostPort(g.portMappings[1])
                        + ReqLen(g.portMappings[1]) - 1 = 65536)
                    => ParseErr(g) = "ZeroPortInExpansion"]_vars

(***************************************************************************)
(* C6  Container-port bound                                                *)
(***************************************************************************)
\* C6: a request with a valid protocol and host IP, a nonzero container port
\* and containerPort + range - 1 > 65535 fails with
\* ContainerPortRangeOverflow whatever its host port (65534 with Range 3),
\* also when the host port range is out of bounds too.
C6_ContainerPortBound ==
    [][\A c \in DOMAIN frame :
          LET f == frame[c]
              g == frame'[c]
              r == f.portMappings[f.ri]
          IN  /\ (/\ AtRequest(f)
                  /\ Named(r.Protocol) \subseteq Protos
                  /\ ResolvedIP(r.HostIP) \in ValidIPs
                  /\ r.ContainerPort # 0
                  /\ r.ContainerPort + ReqLen(r) - 1 > 65535)
                    => ParseErr(g) = "ContainerPortRangeOverflow"
              /\ (/\ ParseReturned(g)
                  /\ g.portMappings = <<Request(65534, 0, 3, <<>>, "")>>)
                    => ParseErr(g) = "ContainerPortRangeOverflow"]_vars

\* both ranges are out of bounds and the container port's is reported
C6_Witness ==
    \E c \in DOMAIN frame :
        /\ ParseErr(frame[c]) = "ContainerPortRangeOverflow"
        /\ LET r == frame[c].portMappings[frame[c].ri]
           IN  /\ r.HostPort # 0
               /\ r.HostPort + ReqLen(r) - 1 > 65536

(***************************************************************************)
(* C7  Merge precedence                                                    *)
(***************************************************************************)
\* the container port is not claimed under "0.0.0.0" in the table that
\* parsePortMapping returned
UnclaimedAtParse(f, p, port) ==
    MapGet(Inner(f.parseRet[1].ctr[1][p], "0.0.0.0"), port) = 0

\* an entry appended by createPortMappings for the port under the protocol
AutoPublished(f, p, port) ==
    \E i \in (Len(ParseList(f)) + 1)..Len(CreateList(f)) :
        /\ CreateList(f)[i].ContainerPort = port
        /\ CreateList(f)[i].Protocol = p
        /\ CreateList(f)[i].HostIP = ""

\* C7: when s.Expose and the image name one container port with different
\* protocols, the merged expose set holds both and, none being claimed, the
\* returned list has an auto-published entry for the port under each.
C7_MergePrecedence ==
    \A c \in DOMAIN frame :
        LET f == frame[c]
        IN  (CreateSucceeded(f) /\ f.PublishExposedPorts /\ f.img # Nil) =>
               \A port \in DOMAIN f.Expose :
                  \A st \in f.img[1].ExposedPorts :
                     LET splitExpose == SplitN2(st, "/")
                         a == Atoi(splitExpose[1])
                         both == Named(f.Expose[port])
                                    \cup Named(ExposeProto(splitExpose))
                     IN  (/\ a.ok /\ a.num = port
                          /\ Named(f.Expose[port]) # Named(ExposeProto(splitExpose))
                          /\ \A p \in both : UnclaimedAtParse(f, p, port))
                         => /\ Named(f.expose[port]) = both
                            /\ \A p \in both : AutoPublished(f, p, port)

(***************************************************************************)
(* C8  Exhaustion and bounded retry                                        *)
(***************************************************************************)
\* the protocol of the pair that is being published
AllocProto(f) == f.toExpose[f.port][f.protoIdx]

\* the probe of this step returned a host port that the host port table of
\* the pair's protocol holds under "0.0.0.0"
ProbeCollides(f, g) ==
    /\ CreateErr(g) # "PortProbeFailed"
    /\ MapGet(Inner(f.hostPortValidate[AllocProto(f)], "0.0.0.0"), g.candidate) # 0

SamePair(f, g) ==
    g.pc = "alloc_try" /\ g.port = f.port /\ g.protoIdx = f.protoIdx

\* C8: fewer than 15 probes have been made whenever one more is made for a
\* pair; a probe that collides is followed by another one for the same pair
\* until 15 were made, and the 15th collision fails the call with
\* PortAllocationExhausted; that error is raised after exactly 15 probes;
\* every turn of the retry loop adds one to the count, so the loop ends.
C8_BoundedRetry ==
    [][\A c \in DOMAIN frame :
          LET f == frame[c]
              g == frame'[c]
          IN  /\ f.pc = "alloc_try" =>
                    /\ f.probes < 15
                    /\ (ProbeCollides(f, g) /\ f.probes < 14)
                          => (SamePair(f, g) /\ ~CreateReturned(g))
                    /\ (ProbeCollides(f, g) /\ f.probes = 14)
                          => CreateErr(g) = "PortAllocationExhausted"
                    /\ SamePair(f, g) => g.probes = f.probes + 1
              /\ CreateErr(g) = "PortAllocationExhausted"
                    => (f.pc = "alloc_try" /\ g.probes = 15
                        /\ ProbeCollides(f, g))]_vars

\* the budget of a pair was used up
C8_Witness ==
    \E c \in DOMAIN frame :
        /\ CreateErr(frame[c]) = "PortAllocationExhausted"
        /\ frame[c].probes = 15
        /\ frame[c].tries = 0

(***************************************************************************)
(* C9  SCTP restriction                                                    *)
(***************************************************************************)
ContainsSctp(spec) == protoSCTP \in Elems(Split(spec, ","))

SctpExposed(f) == \E port \in DOMAIN f.expose : ContainsSctp(f.expose[port])

\* sctp is the first component of the specifier that is not tcp, udp or empty
SctpFirstOffence(spec) ==
    LET comps == Split(spec, ",")
        bad == {i \in 1..Len(comps) : comps[i] \notin {protoTCP, protoUDP, <<>>}}
    IN  \E i \in bad : comps[i] = protoSCTP /\ \A j \in bad : i <= j

\* the expose entry that this step visits
Visited(f, g) == CHOOSE port \in f.exposeTodo : port \notin g.exposeTodo

VisitsEntry(f, g) == f.pc = "expose_range" /\ g.exposeTodo # f.exposeTodo

\* a single explicit request for sctp is accepted and yields sctp entries
ExplicitSctpAccepted(g) ==
    (/\ ParseReturned(g)
     /\ Len(g.portMappings) = 1
     /\ ValidRequest(g.portMappings[1])
     /\ g.portMappings[1].Protocol = protoSCTP)
    => /\ ParseOk(g)
       /\ Len(ParseList(g)) = ReqLen(g.portMappings[1])
       /\ \A i \in 1..Len(ParseList(g)) : ParseList(g)[i].Protocol = protoSCTP

\* C9 as stated: once the merged expose set holds an entry whose specifier
\* contains sctp, the call fails with ProtocolNotAllowed; an explicit
\* request for sctp is accepted.
C9_SctpAlwaysNotAllowed ==
    [][\A c \in DOMAIN frame :
          LET f == frame[c]
              g == frame'[c]
          IN  /\ (f.pc = "expose_range" /\ SctpExposed(f)) =>
                    /\ g.pc \in {"expose_range", "returned"}
                    /\ CreateReturned(g) => CreateErr(g) = "ProtocolNotAllowed"
              /\ ExplicitSctpAccepted(g)]_vars

\* C9 as amended: once the merged expose set holds an entry whose specifier
\* contains sctp the call fails; when such an entry is visited, claimed or
\* not, the error is ProtocolNotAllowed if sctp is the first component that
\* is not tcp, udp or empty, and InvalidProtocol if an unrecognized one
\* precedes it; an explicit request for sctp is accepted.
C9_SctpRestriction ==
    [][\A c \in DOMAIN frame :
          LET f == frame[c]
              g == frame'[c]
          IN  /\ (f.pc = "expose_range" /\ SctpExposed(f)) =>
                    /\ g.pc \in {"expose_range", "returned"}
                    /\ CreateReturned(g) => CreateErr(g) # NoErr
              /\ (VisitsEntry(f, g) /\ ContainsSctp(f.expose[Visited(f, g)])) =>
                    CreateErr(g) = IF SctpFirstOffence(f.expose[Visited(f, g)])
                                   THEN "ProtocolNotAllowed"
                                   ELSE "InvalidProtocol"
              /\ ExplicitSctpAccepted(g)]_vars

\* an sctp entry for a container port that an explicit request had already
\* mapped under the wildcard IP was refused
C9_Witness ==
    \E c \in DOMAIN frame :
        /\ CreateErr(frame[c]) = "ProtocolNotAllowed"
        /\ \E port \in (DOMAIN frame[c].expose) \ frame[c].exposeTodo :
              /\ ContainsSctp(frame[c].expose[port])
              /\ \E p \in Protos : ~UnclaimedAtParse(frame[c], p, port)

(***************************************************************************)
(* C10  ProtocolSet Resolver                                               *)
(***************************************************************************)
\* the list has no duplicates and holds exactly the protocols of S
ListsExactly(l, S) == Elems(l) = S /\ Len(l) = Cardinality(S)

\* the frame with the protocol of its current request replaced
WithProtocol(f, proto) == [f EXCEPT !.portMappings[f.ri].Protocol = proto]

\* C10: checkProtocol fails with InvalidProtocol exactly when a component is
\* none of tcp, udp, sctp, empty, with ProtocolNotAllowed only for sctp where
\* it is disallowed, and otherwise returns a non-empty duplicate-free list
\* of exactly the protocols named, an empty component counted as tcp; a
\* request with empty Protocol is handled as the same request with "tcp".
C10_ProtocolSet ==
    [][\A c \in DOMAIN frame :
          LET f == frame[c]
              g == frame'[c]
          IN  /\ AtRequest(f) =>
                    LET spec == f.portMappings[f.ri].Protocol
                    IN  /\ (~(Named(spec) \subseteq Protos))
                              <=> (ParseErr(g) = "InvalidProtocol")
                        /\ ParseErr(g) \notin {"ProtocolNotAllowed", "NoValidProtocol"}
                        /\ g.pc = "parse_proto" =>
                              /\ ListsExactly(g.protocols, Named(spec))
                              /\ Len(g.protocols) >= 1
                        /\ spec = <<>> =>
                              \E r \in checkProtocol(protoTCP, TRUE) :
                                 [g EXCEPT !.portMappings =
                                              WithProtocol(f, protoTCP).portMappings]
                                    = ParseRequestStep(WithProtocol(f, protoTCP), r)
              /\ VisitsEntry(f, g) =>
                    LET port == Visited(f, g)
                        spec == f.expose[port]
                        marked == IF port \in DOMAIN g.toExpose
                                  THEN g.toExpose[port] ELSE <<>>
                    IN  /\ CreateErr(g) = "InvalidProtocol"
                              => ~(Named(spec) \subseteq Protos)
                        /\ CreateErr(g) = "ProtocolNotAllowed"
                              => protoSCTP \in Named(spec)
                        /\ (Named(spec) \subseteq {protoTCP, protoUDP})
                              <=> (CreateErr(g) \notin {"InvalidProtocol",
                                                        "ProtocolNotAllowed"})
                        /\ CreateErr(g) # "NoValidProtocol"
                        /\ (~CreateReturned(g)) =>
                              ListsExactly(marked,
                                 {p \in Named(spec) :
                                     MapGet(Inner(f.containerPortValidate[p],
                                                  "0.0.0.0"), port) = 0})]_vars

\* a specifier with a repeated and an empty component was resolved
C10_Witness ==
    \E c \in DOMAIN frame :
        /\ frame[c].pc = "parse_proto"
        /\ frame[c].portMappings[frame[c].ri].Protocol = <<"udp", ",", ",">>
        /\ Len(frame[c].protocols) = 2

(***************************************************************************)
(* C11  Auto-publish off is a no-op                                        *)
(***************************************************************************)
\* the image declares no port: there is no image, or its inspection
\* returned no EXPOSE statement
NoImagePorts(f) ==
    f.img = Nil \/ (~f.img[1].inspectErr /\ f.img[1].ExposedPorts = {})

\* auto-publishing is disabled, or s.Expose is empty and the image declares
\* no port
PublishOff(f) ==
    ~f.PublishExposedPorts \/ (DOMAIN f.Expose = {} /\ NoImagePorts(f))

\* C11: when auto-publishing is disabled, or s.Expose is empty and no
\* image-declared port exists, createPortMappings returns exactly the list
\* that parsePortMapping produced, in the same order (or its error), no
\* probe is ever made, and no entry of s.Expose is validated.
C11_PublishOffNoOp ==
    \A c \in DOMAIN frame :
        LET f == frame[c]
        IN  PublishOff(f) =>
               /\ f.pc \notin {"merge_image", "expose_range", "alloc_try"}
               /\ f.probes = 0 /\ f.candidate = 0
               /\ f.toExpose = EmptyMap
               /\ CreateReturned(f) => CreateErr(f) = ParseErr(f)
               /\ CreateSucceeded(f) => CreateList(f) = ParseList(f)

\* a call with auto-publishing disabled returned parsePortMapping's two
\* entries although s.Expose names port 0 or a protocol that is not allowed
C11_Witness ==
    \E c \in DOMAIN frame :
        /\ CreateSucceeded(frame[c])
        /\ ~frame[c].PublishExposedPorts
        /\ Len(CreateList(frame[c])) >= 2
        /\ \E port \in DOMAIN frame[c].Expose :
              port = 0 \/ <<"sctp">> \in Named(frame[c].Expose[port])

(***************************************************************************)
(* C12  All-or-nothing on error                                            *)
(***************************************************************************)
\* C12: a call of parsePortMapping that returns an error returns no list
\* and no table, and a call of createPortMappings that returns an error
\* returns no list, whatever was recorded or allocated before; a call that
\* returns no error returns all of them.
C12_AllOrNothing ==
    \A c \in DOMAIN frame :
        LET f == frame[c]
        IN  /\ ParseReturned(f) =>
                  IF ParseErr(f) # NoErr
                  THEN /\ f.parseRet[1].mappings = Nil
                       /\ f.parseRet[1].ctr = Nil
                       /\ f.parseRet[1].host = Nil
                  ELSE /\ f.parseRet[1].mappings # Nil
                       /\ f.parseRet[1].ctr # Nil
                       /\ f.parseRet[1].host # Nil
            /\ CreateReturned(f) =>
                  (CreateErr(f) # NoErr <=> f.createRet[1].mappings = Nil)

\* createPortMappings failed after it had appended an auto-published entry
\* to the entries of parsePortMapping
C12_Witness ==
    \E c \in DOMAIN frame :
        /\ CreateReturned(frame[c])
        /\ CreateErr(frame[c]) \in {"PortAllocationExhausted", "PortProbeFailed"}
        /\ Len(ParseList(frame[c])) >= 1
        /\ Len(frame[c].finalMappings) > Len(ParseList(frame[c]))

(***************************************************************************)
(* C13  Stable output order                                                *)
(***************************************************************************)
\* both runs have returned and were given the same probe results
SameRuns ==
    /\ DOMAIN frame = {1, 2}
    /\ CreateReturned(frame[1]) /\ CreateReturned(frame[2])
    /\ frame[1].probeLog = frame[2].probeLog

\* C13: two runs of createPortMappings on the same input that are given the
\* same sequence of probe results return the same entries in the same
\* order (and parsePortMapping returns the same list in both).
C13_StableOrder ==
    SameRuns =>
        /\ frame[1].createRet = frame[2].createRet
        /\ frame[1].parseRet[1].mappings = frame[2].parseRet[1].mappings

(***************************************************************************)
(* C14  Auto-publish selection                                             *)
(***************************************************************************)
\* the (port, protocol) pairs of the merged expose set
ExposedPairs(f) ==
    UNION {{<<port, p>> : p \in Named(f.expose[port])} :
              port \in DOMAIN f.expose}

\* those whose container port parsePortMapping left unclaimed for the
\* protocol under "0.0.0.0"
PairsToPublish(f) ==
    {pr \in ExposedPairs(f) : UnclaimedAtParse(f, pr[2], pr[1])}

\* the entries that createPortMappings appended to parsePortMapping's
AutoEntries(f) ==
    SubSeq(CreateList(f), Len(ParseList(f)) + 1, Len(CreateList(f)))

\* C14: a successful call with auto-publishing enabled returns
\* parsePortMapping's list followed by exactly one entry for each (port,
\* protocol) pair of the merged expose set whose container port is not
\* claimed for that protocol under "0.0.0.0" in parsePortMapping's table;
\* the entry has that container port and protocol, an empty HostIP and, as
\* HostPort, a probe result that the host port table records for the port;
\* a claimed pair gets no entry.
C14_AutoPublishSelection ==
    \A c \in DOMAIN frame :
        LET f == frame[c]
            auto == AutoEntries(f)
        IN  (CreateSucceeded(f) /\ f.PublishExposedPorts) =>
               /\ Len(CreateList(f)) >= Len(ParseList(f))
               /\ SubSeq(CreateList(f), 1, Len(ParseList(f))) = ParseList(f)
               /\ {<<auto[i].ContainerPort, auto[i].Protocol>> :
                      i \in 1..Len(auto)} = PairsToPublish(f)
               /\ Len(auto) = Cardinality(PairsToPublish(f))
               /\ \A i \in 1..Len(auto) :
                     /\ auto[i].HostIP = ""
                     /\ auto[i].HostPort \in ProbePorts
                     /\ MapGet(Inner(f.hostPortValidate[auto[i].Protocol],
                                     "0.0.0.0"),
                               auto[i].HostPort) = auto[i].ContainerPort

\* a returned list of two auto-published entries after the explicit ones,
\* from an expose set with a pair that is claimed and got none
C14_Witness ==
    \E c \in DOMAIN frame :
        /\ CreateSucceeded(frame[c])
        /\ frame[c].PublishExposedPorts
        /\ Len(ParseList(frame[c])) >= 1
        /\ Len(AutoEntries(frame[c])) >= 2
        /\ ExposedPairs(frame[c]) # PairsToPublish(frame[c])

(***************************************************************************)
(* C15  Mirror invariant of the validator                                  *)
(***************************************************************************)
\* the two tables are mirrors under every protocol and host IP: a nonzero
\* entry of one has the matching entry in the other
Mirror(ctr, host) ==
    \A p \in Protos :
        \A ip \in (DOMAIN ctr[p]) \cup (DOMAIN host[p]) :
            LET ctrPortMap == Inner(ctr[p], ip)
                hostPortMap == Inner(host[p], ip)
            IN  /\ \A cPort \in DOMAIN ctrPortMap :
                      ctrPortMap[cPort] # 0 =>
                         MapGet(hostPortMap, ctrPortMap[cPort]) = cPort
                /\ \A hPort \in DOMAIN hostPortMap :
                      hostPortMap[hPort] # 0 =>
                         MapGet(ctrPortMap, hostPortMap[hPort]) = hPort

\* the (protocol, host IP, container port, host port) tuples that a
\* container port table holds
CtrTableTuples(ctr) ==
    UNION {UNION {{<<p, ip, cPort, ctr[p][ip][cPort]>> :
                      cPort \in {k \in DOMAIN ctr[p][ip] : ctr[p][ip][k] # 0}} :
                  ip \in DOMAIN ctr[p]} :
           p \in Protos}

\* the same tuples as a host port table holds them
HostTableTuples(host) ==
    UNION {UNION {{<<p, ip, host[p][ip][hPort], hPort>> :
                      hPort \in {k \in DOMAIN host[p][ip] : host[p][ip][k] # 0}} :
                  ip \in DOMAIN host[p]} :
           p \in Protos}

\* C15: when parsePortMapping succeeds, the container port table and the
\* host port table it returns are mirrors of each other under every
\* protocol and normalized host IP, and the tuples they hold are the
\* tuples of the returned list.
C15_ValidatorMirror ==
    \A c \in DOMAIN frame :
        ParseOk(frame[c]) =>
            LET ctr == frame[c].parseRet[1].ctr[1]
                host == frame[c].parseRet[1].host[1]
            IN  /\ Mirror(ctr, host)
                /\ CtrTableTuples(ctr) = ListTuples(ParseList(frame[c]))
                /\ HostTableTuples(host) = ListTuples(ParseList(frame[c]))

\* parsePortMapping returned tables that hold four tuples, under two host
\* IPs
C15_Witness ==
    \E c \in DOMAIN frame :
        /\ ParseOk(frame[c])
        /\ Cardinality(CtrTableTuples(frame[c].parseRet[1].ctr[1])) >= 4
        /\ Cardinality({t[2] : t \in
                           HostTableTuples(frame[c].parseRet[1].host[1])}) >= 2

(***************************************************************************)
(* C16  Mirror invariant at the end of the request                         *)
(***************************************************************************)
\* C16: when createPortMappings returns successfully after auto-publishing
\* at least one port, the container port table and the host port table are
\* mirrors of each other under every protocol and host IP.
C16_EndMirror ==
    \A c \in DOMAIN frame :
        (CreateSucceeded(frame[c]) /\ Len(AutoEntries(frame[c])) >= 1) =>
            Mirror(frame[c].containerPortValidate, frame[c].hostPortValidate)

(***************************************************************************)
(* C17  No collision of an allocated host port                             *)
(***************************************************************************)
\* C17: in the list of a successful createPortMappings call, the host port
\* of an auto-published entry differs from the host port of every other
\* entry of the same protocol, auto-published or explicit, whatever host IP
\* the explicit entry is bound to.
C17_NoHostPortCollision ==
    \A c \in DOMAIN frame :
        CreateSucceeded(frame[c]) =>
            LET l == CreateList(frame[c])
            IN  \A i \in (Len(ParseList(frame[c])) + 1)..Len(l) :
                    \A j \in 1..Len(l) :
                        (j # i /\ l[j].Protocol = l[i].Protocol)
                        => l[j].HostPort # l[i].HostPort

(***************************************************************************)
(* C18  Wildcard-only duplicate check                                      *)
(***************************************************************************)
\* parsePortMapping's list maps the container port under the protocol, and
\* only under host IPs other than "" and "0.0.0.0"
MappedOnlyUnderSpecificIP(f, p, port) ==
    LET l == ParseList(f)
        own == {i \in 1..Len(l) :
                   l[i].Protocol = p /\ l[i].ContainerPort = port}
    IN  /\ own # {}
        /\ \A i \in own : ResolvedIP(l[i].HostIP) # "0.0.0.0"

\* C18: when a container port of the expose set is explicitly mapped, for a
\* protocol the set names for it, only under a specific non-wildcard host
\* IP, a successful createPortMappings call with auto-publishing enabled
\* still returns an auto-published entry for that protocol and container
\* port (with the empty, wildcard HostIP), next to the explicit entry.
C18_WildcardOnlyCheck ==
    \A c \in DOMAIN frame :
        LET f == frame[c]
        IN  (CreateSucceeded(f) /\ f.PublishExposedPorts) =>
               \A pr \in ExposedPairs(f) :
                   MappedOnlyUnderSpecificIP(f, pr[2], pr[1]) =>
                      /\ AutoPublished(f, pr[2], pr[1])
                      /\ \E i \in 1..Len(ParseList(f)) :
                            /\ CreateList(f)[i] = ParseList(f)[i]
                            /\ CreateList(f)[i].Protocol = pr[2]
                            /\ CreateList(f)[i].ContainerPort = pr[1]
                            /\ ResolvedIP(CreateList(f)[i].HostIP) # "0.0.0.0"

\* a returned list with the explicit entry of 127.0.0.1 and an
\* auto-published entry for the same protocol and container port
C18_Witness ==
    \E c \in DOMAIN frame :
        /\ CreateSucceeded(frame[c])
        /\ frame[c].PublishExposedPorts
        /\ \E pr \in ExposedPairs(frame[c]) :
              /\ MappedOnlyUnderSpecificIP(frame[c], pr[2], pr[1])
              /\ AutoPublished(frame[c], pr[2], pr[1])

(***************************************************************************)
(* C19  Probe failure is surfaced, not retried                             *)
(***************************************************************************)
\* the step is a probe for which getRandomPort returned an error (and so
\* no port)
ProbeFailed(f, g) ==
    f.pc = "alloc_try" /\ g.probes = f.probes + 1 /\ g.candidate = 0

\* C19: a probe on which getRandomPort fails ends createPortMappings at
\* once with PortProbeFailed and no list, whatever is left of the budget of
\* 15 attempts, which the failure does not consume; nothing is probed,
\* appended or changed after the call has returned; and PortProbeFailed is
\* returned for no other reason.
C19_ProbeFailureSurfaced ==
    [][\A c \in DOMAIN frame :
          LET f == frame[c]
              g == frame'[c]
          IN  /\ ProbeFailed(f, g) =>
                    /\ g.pc = "returned"
                    /\ CreateErr(g) = "PortProbeFailed"
                    /\ g.createRet[1].mappings = Nil
                    /\ g.tries = f.tries
                    /\ g.finalMappings = f.finalMappings
                    /\ g.toExposeTodo = f.toExposeTodo
              /\ CreateReturned(f) => g = f
              /\ (~CreateReturned(f) /\ CreateErr(g) = "PortProbeFailed")
                    => ProbeFailed(f, g)]_vars

\* a probe failed after an entry had been auto-published and an earlier
\* probe for the pair had collided, with attempts and another port left
C19_Witness ==
    \E c \in DOMAIN frame :
        /\ CreateErr(frame[c]) = "PortProbeFailed"
        /\ frame[c].probes >= 2
        /\ frame[c].tries >= 1
        /\ Len(frame[c].finalMappings) > Len(ParseList(frame[c]))
        /\ frame[c].toExposeTodo # {}

(***************************************************************************)
(* C20  Host-IP normalization versus output                                *)
(***************************************************************************)
\* the requests are ones that every check lets through, and some name the
\* host IP "" and some "0.0.0.0"
MixesWildcards(pm) ==
    /\ \A k \in 1..Len(pm) : ValidRequest(pm[k])
    /\ \E k \in 1..Len(pm) : pm[k].HostIP = ""
    /\ \E k \in 1..Len(pm) : pm[k].HostIP = "0.0.0.0"

\* the request that first asks for the entry's tuple has the entry's HostIP
CarriesFirstHostIP(pm, e) ==
    \E k \in 1..Len(pm) :
        /\ EntryTuple(e) \in ReqTuples(pm[k])
        /\ \A j \in 1..(k - 1) : EntryTuple(e) \notin ReqTuples(pm[j])
        /\ e.HostIP = pm[k].HostIP

\* C20: parsePortMapping keys its conflict tables by "0.0.0.0" for the
\* requests with HostIP "" and for those with HostIP "0.0.0.0" alike: a
\* list of valid requests mixing the two is accepted exactly when the
\* tuples asked for, read under one key, do not conflict, and a pair asked
\* for under both is emitted once; every emitted entry carries the HostIP
\* string, possibly empty, of the request that first recorded its pair.
C20_HostIPNormalization ==
    \A c \in DOMAIN frame :
        LET f == frame[c]
            pm == f.portMappings
        IN  /\ (ParseReturned(f) /\ MixesWildcards(pm)) =>
                  /\ ParseOk(f) <=> NoConflict(AllTuples(pm))
                  /\ ~ParseOk(f) =>
                        ParseErr(f) \in {"ConflictingContainerPort",
                                         "ConflictingHostPort"}
                  /\ ParseOk(f) =>
                        Len(ParseList(f)) = Cardinality(AllTuples(pm))
            /\ ParseOk(f) =>
                  \A i \in 1..Len(ParseList(f)) :
                      CarriesFirstHostIP(pm, ParseList(f)[i])

\* a request with HostIP "" and one with HostIP "0.0.0.0" shared a pair,
\* and the list has the shared pair once, with HostIP "", and another entry
\* with HostIP "0.0.0.0"
C20_Witness ==
    \E c \in DOMAIN frame :
        LET pm == frame[c].portMappings
        IN  /\ ParseOk(frame[c])
            /\ Len(pm) = 2
            /\ pm[1].HostIP = "" /\ pm[2].HostIP = "0.0.0.0"
            /\ ReqTuples(pm[1]) \cap ReqTuples(pm[2]) # {}
            /\ {ParseList(frame[c])[i].HostIP :
                   i \in 1..Len(ParseList(frame[c]))} = {"", "0.0.0.0"}

(***************************************************************************)
(* C21  Independence of concurrent requests                                *)
(***************************************************************************)
\* the frames that one step of a call running alone leads to from f: what
\* the code does next, from the call's own arguments, locals, list and
\* tables and from what getRandomPort returns
CallNext(f) ==
    IF f.pc = "parse_range"
    THEN IF f.ri <= Len(f.portMappings)
         THEN {ParseRequestStep(f, r) :
                  r \in checkProtocol(f.portMappings[f.ri].Protocol, TRUE)}
         ELSE {ParseReturnStep(f)}
    ELSE IF f.pc = "parse_proto" THEN {ParseProtocolStep(f)}
    ELSE IF f.pc = "parse_pair" THEN {ParsePairStep(f)}
    ELSE IF f.pc = "parse_returned" THEN {CreateBeginStep(f)}
    ELSE IF f.pc = "merge_image"
         THEN {MergeImageStep(f, imgExpose) : imgExpose \in f.imgTodo}
    ELSE IF f.pc = "expose_range"
         THEN UNION {{ExposeEntryStep(f, port, r) :
                         r \in checkProtocol(f.expose[port], FALSE)} :
                     port \in f.exposeTodo}
    ELSE IF f.pc = "alloc_range"
         THEN IF f.toExposeTodo = {} THEN {CreateOk(f)}
              ELSE {AllocBeginStep(f, port) : port \in f.toExposeTodo}
    ELSE IF f.pc = "alloc_try"
         THEN {ProbeStep(f, [err |-> NoErr, port |-> v]) : v \in ProbePorts}
              \cup {ProbeStep(f, [err |-> "PortProbeFailed", port |-> 0])}
    ELSE {}

\* the auto-published entries of the call's list
AutoHostPorts(f) ==
    {<<f.finalMappings[i].Protocol, f.finalMappings[i].HostPort>> :
        i \in {j \in 1..Len(f.finalMappings) : f.finalMappings[j].HostIP = ""
                                               /\ j > Len(ParseList(f))}}

PortsInRange(l) ==
    \A i \in 1..Len(l) :
        /\ l[i].HostPort \in 1..65535
        /\ l[i].ContainerPort \in 1..65535

\* the last container port or the last host port that the request asks for
\* is beyond 65535
EndsBeyondRange(r) ==
    \/ r.ContainerPort + ReqLen(r) - 1 > 65535
    \/ ReqHostPort(r) + ReqLen(r) - 1 > 65535

\* C22: every entry of a list that parsePortMapping returns without error
\* has its HostPort and its ContainerPort in 1..65535, and no list is
\* returned for requests holding a range that ends beyond 65535, the range
\* whose host end is 65536 and wraps to 0 included; with probes returning
\* ports in 1..65535, the same holds for every entry of a list that
\* createPortMappings returns, and a call exposing port 0 returns none.
C22_PortsInRange ==
    \A c \in DOMAIN frame :
        LET f == frame[c]
        IN  /\ ParseOk(f) =>
                  /\ PortsInRange(ParseList(f))
                  /\ \A k \in 1..Len(f.portMappings) :
                        ~EndsBeyondRange(f.portMappings[k])
            /\ CreateSucceeded(f) =>
                  /\ PortsInRange(CreateList(f))
                  /\ (~PublishOff(f) => 0 \notin DOMAIN f.expose)

\* a returned range that ends on host port 65535
C22_Witness ==
    \E c \in DOMAIN frame :
        /\ CreateSucceeded(frame[c])
        /\ Len(frame[c].portMappings) = 1
        /\ frame[c].portMappings[1].Range >= 2
        /\ \E i \in 1..Len(CreateList(frame[c])) :
              CreateList(frame[c])[i].HostPort = 65535

====
